---- MODULE Spec2Model ----
(***************************************************************************)
(* A model of cato-display-app: the seventeen-segment display engine       *)
(* (SegmentBits, the segmented font, the segment geometry and the cached   *)
(* DigitDisplay / DigitProgram renderer).                                  *)
(*                                                                         *)
(* Numbers.  The f32 values of the program are modelled as exact numbers   *)
(* of the form (r + s*sqrt(2)) / 100, written [r |-> r, s |-> s], so that  *)
(* the constants 0.5, 0.08, 0.15, SQRT_2 and FRAC_1_SQRT_2 and every       *)
(* product the geometry code forms are represented without rounding.       *)
(* The scalar options (size, gap, thickness) are integers, in tenths of a  *)
(* pixel: thickness 5.7 is 57, the size 40 x 80 is 400 x 800.              *)
(***************************************************************************)
EXTENDS Integers, Sequences, FiniteSets, TLC

(***************************************************************************)
(* f32 arithmetic (glam::Vec2, glam::Mat2)                                  *)
(***************************************************************************)

\* A literal given in hundredths: Lit(50) is 0.5, Lit(-100) is -1.
Lit(c) == [r |-> c, s |-> 0]

\* A scalar option value v (an integer) as a number.
F32(v) == [r |-> 100 * v, s |-> 0]

\* std::f32::consts::SQRT_2 and FRAC_1_SQRT_2 (= sqrt(2)/2).
SQRT_2 == [r |-> 0, s |-> 100]

FRAC_1_SQRT_2 == [r |-> 0, s |-> 50]

NAdd(a, b) == [r |-> a.r + b.r, s |-> a.s + b.s]

NNeg(a) == [r |-> 0 - a.r, s |-> 0 - a.s]

\* (a.r + a.s q)(b.r + b.s q) / 100 with q*q = 2.
NMul(a, b) ==
    [r |-> (a.r * b.r + 2 * a.s * b.s) \div 100,
     s |-> (a.r * b.s + a.s * b.r) \div 100]

Vec2new(x, y) == [x |-> x, y |-> y]

\* Vec2 + Vec2
VAdd(u, v) == Vec2new(NAdd(u.x, v.x), NAdd(u.y, v.y))

\* Vec2 * f32
VScale(v, k) == Vec2new(NMul(v.x, k), NMul(v.y, k))

\* Vec2 * Vec2 (component-wise)
VMul(u, v) == Vec2new(NMul(u.x, v.x), NMul(u.y, v.y))

\* Mat2 is column-major: x_axis and y_axis are its columns.
Mat2cols(xa, ya) == [x_axis |-> xa, y_axis |-> ya]

\* Mat2::from_diagonal
from_diagonal(d) ==
    Mat2cols(Vec2new(d.x, Lit(0)), Vec2new(Lit(0), d.y))

\* Mat2 * Vec2
mul_vec2(m, v) == VAdd(VScale(m.x_axis, v.x), VScale(m.y_axis, v.y))

\* Mat2 * Mat2
mul_mat2(m, n) == Mat2cols(mul_vec2(m, n.x_axis), mul_vec2(m, n.y_axis))

IDENT == from_diagonal(Vec2new(Lit(100), Lit(100)))

MIRROR_X == from_diagonal(Vec2new(Lit(-100), Lit(100)))

MIRROR_Y == from_diagonal(Vec2new(Lit(100), Lit(-100)))

MIRROR_XY == from_diagonal(Vec2new(Lit(-100), Lit(-100)))

(***************************************************************************)
(* Segment and SegmentBits (segments/digit.rs)                             *)
(***************************************************************************)

\* enum Segment, in declaration order: the discriminant is the position - 1.
Segment ==
    <<"A1", "A2", "B", "C", "D1", "D2", "E", "F", "G1", "G2",
      "H", "I", "J", "K", "L", "M", "DP">>

Segments == {Segment[i] : i \in 1..Len(Segment)}

\* `segment as u8`
as_u8(seg) == (CHOOSE i \in 1..Len(Segment) : Segment[i] = seg) - 1

\* try_from with the bound exclusive: the last ordinal is rejected
try_from_exclusive(value) ==
    IF value < as_u8("DP")
    THEN [ok |-> TRUE, val |-> Segment[value + 1]]
    ELSE [ok |-> FALSE]

\* impl TryFrom<u8> for Segment: Ok(transmute(value)) when value <= DP as u8.
try_from(value) ==
    IF value <= as_u8("DP")
    THEN [ok |-> TRUE, val |-> Segment[value + 1]]
    ELSE [ok |-> FALSE]

\* u32 `|`, `&` and `1 << k`, bit by bit.
RECURSIVE u32_or(_, _)
u32_or(a, b) ==
    IF a = 0 /\ b = 0 THEN 0
    ELSE (IF a % 2 = 1 \/ b % 2 = 1 THEN 1 ELSE 0)
         + 2 * u32_or(a \div 2, b \div 2)

RECURSIVE u32_and(_, _)
u32_and(a, b) ==
    IF a = 0 \/ b = 0 THEN 0
    ELSE (IF a % 2 = 1 /\ b % 2 = 1 THEN 1 ELSE 0)
         + 2 * u32_and(a \div 2, b \div 2)

RECURSIVE shl(_, _)
shl(v, k) == IF k = 0 THEN v ELSE shl(2 * v, k - 1)

\* SegmentBits::new
SegmentBits_new == 0

\* SegmentBits::is_empty
is_empty(bits) == bits = 0

\* impl Default for SegmentBits
SegmentBits_default == SegmentBits_new

\* impl From<u32> for SegmentBits
from_u32(value) == value

\* impl BitOr<Segment> for SegmentBits
bitor_segment(bits, rhs) == u32_or(bits, shl(1, as_u8(rhs)))

\* impl BitOr for Segment
segment_bitor(lhs, rhs) == bitor_segment(bitor_segment(SegmentBits_new, lhs), rhs)

\* union by addition instead of bitwise or
bitor_add(lhs, rhs) == lhs + rhs

\* impl BitOr for SegmentBits
bitor(lhs, rhs) == u32_or(lhs, rhs)

\* impl BitAnd for SegmentBits
bitand(lhs, rhs) == u32_and(lhs, rhs)

\* impl BitAnd<Segment> for SegmentBits (the membership test)
bitand_segment(bits, rhs) == u32_and(bits, shl(1, as_u8(rhs))) # 0

(***************************************************************************)
(* SegmentedFont (segments/segmented_font.rs)                              *)
(***************************************************************************)

None == [some |-> FALSE]

Some(v) == [some |-> TRUE, val |-> v]

\* The literal table of DEFAULT, entry by entry: <<char, segment names>>;
\* the entry `' ' => 0` names no segment.
DEFAULT_TABLE ==
    <<
       <<" ", <<>>>>,
       <<"!", <<"A1", "A2", "H", "I", "J", "D1", "D2">>>>,
       <<"\"", <<"F", "B">>>>,
       <<"#", <<"I", "L", "B", "C", "G1", "G2", "D1", "D2">>>>,
       <<"$", <<"A1", "A2", "F", "G1", "G2", "C", "D1", "D2", "I", "L">>>>,
       <<"%", <<"A1", "J", "K", "D2">>>>,
       <<"&", <<"A1", "F", "I", "G1", "G2", "E", "M", "D1", "D2">>>>,
       <<"'", <<"I">>>>,
       <<"(", <<"A1", "F", "E", "D1">>>>,
       <<")", <<"A2", "B", "C", "D2">>>>,
       <<"*", <<"G1", "G2", "H", "I", "J", "K", "L", "M">>>>,
       <<"+", <<"I", "L", "G1", "G2">>>>,
       <<",", <<"K">>>>,
       <<"-", <<"G1", "G2">>>>,
       <<".", <<"DP">>>>,
       <<"/", <<"J", "K">>>>,
       <<"0", <<"A1", "A2", "B", "C", "D1", "D2", "E", "F", "J", "K">>>>,
       <<"1", <<"J", "B", "C">>>>,
       <<"2", <<"A1", "A2", "B", "G1", "G2", "E", "D1", "D2">>>>,
       <<"3", <<"A1", "A2", "B", "G1", "G2", "C", "D1", "D2">>>>,
       <<"4", <<"F", "B", "G1", "G2", "C">>>>,
       <<"5", <<"A1", "A2", "F", "G1", "G2", "C", "D1", "D2">>>>,
       <<"6", <<"A1", "A2", "F", "G1", "G2", "E", "C", "D1", "D2">>>>,
       <<"7", <<"A1", "A2", "B", "C">>>>,
       <<"8", <<"A1", "A2", "B", "C", "D1", "D2", "E", "F", "G1", "G2">>>>,
       <<"9", <<"A1", "A2", "B", "C", "D1", "D2", "F", "G1", "G2">>>>,
       <<":", <<"G1", "D1">>>>,
       <<";", <<"A1", "K">>>>,
       <<"<", <<"J", "M">>>>,
       <<"=", <<"G1", "G2", "D1", "D2">>>>,
       <<">", <<"H", "K">>>>,
       <<"?", <<"A1", "A2", "B", "G2", "L">>>>,
       <<"@", <<"A1", "A2", "B", "C", "D2", "E", "F", "G2", "L">>>>,
       <<"A", <<"A1", "A2", "B", "C", "E", "F", "G1", "G2">>>>,
       <<"B", <<"A1", "A2", "B", "C", "D1", "D2", "G2", "I", "L">>>>,
       <<"C", <<"A1", "A2", "D1", "D2", "E", "F">>>>,
       <<"D", <<"A1", "A2", "B", "C", "D1", "D2", "I", "L">>>>,
       <<"E", <<"A1", "A2", "D1", "D2", "E", "F", "G1">>>>,
       <<"F", <<"A1", "A2", "E", "F", "G1">>>>,
       <<"G", <<"A1", "A2", "C", "D1", "D2", "E", "F", "G2">>>>,
       <<"H", <<"B", "C", "E", "F", "G1", "G2">>>>,
       <<"I", <<"A1", "A2", "D1", "D2", "I", "L">>>>,
       <<"J", <<"B", "C", "D1", "D2">>>>,
       <<"K", <<"E", "F", "G1", "J", "M">>>>,
       <<"L", <<"D1", "D2", "E", "F">>>>,
       <<"M", <<"B", "C", "E", "F", "H", "J">>>>,
       <<"N", <<"B", "C", "E", "F", "H", "M">>>>,
       <<"O", <<"A1", "A2", "B", "C", "D1", "D2", "E", "F">>>>,
       <<"P", <<"A1", "A2", "B", "E", "F", "G1", "G2">>>>,
       <<"Q", <<"A1", "A2", "B", "C", "D1", "D2", "E", "F", "M">>>>,
       <<"R", <<"A1", "A2", "B", "E", "F", "G1", "G2", "M">>>>,
       <<"S", <<"A1", "A2", "C", "D1", "D2", "F", "G1", "G2">>>>,
       <<"T", <<"A1", "A2", "I", "L">>>>,
       <<"U", <<"B", "C", "D1", "D2", "E", "F">>>>,
       <<"V", <<"E", "F", "J", "K">>>>,
       <<"W", <<"B", "C", "E", "F", "K", "M">>>>,
       <<"X", <<"H", "J", "K", "M">>>>,
       <<"Y", <<"H", "J", "L">>>>,
       <<"Z", <<"A1", "A2", "D1", "D2", "J", "K">>>>,
       <<"a", <<"G1", "E", "L", "D1", "D2">>>>,
       <<"b", <<"E", "F", "G1", "G2", "D1", "D2", "C">>>>,
       <<"c", <<"G1", "G2", "E", "D1", "D2">>>>,
       <<"d", <<"B", "C", "D1", "D2", "E", "G1", "G2">>>>,
       <<"e", <<"A1", "A2", "B", "D1", "D2", "E", "F", "G1", "G2">>>>,
       <<"f", <<"A2", "I", "L", "G1", "G2">>>>,
       <<"g", <<"A1", "I", "L", "D1", "F", "G1">>>>,
       <<"h", <<"E", "F", "G1", "G2", "C">>>>,
       <<"i", <<"A1", "A2", "L">>>>,
       <<"j", <<"A1", "A2", "L", "D1">>>>,
       <<"k", <<"E", "F", "G1", "J", "M">>>>,
       <<"l", <<"E", "F">>>>,
       <<"m", <<"G1", "G2", "E", "L", "C">>>>,
       <<"n", <<"G1", "G2", "E", "C">>>>,
       <<"o", <<"G1", "G2", "E", "C", "D1", "D2">>>>,
       <<"p", <<"A1", "I", "G1", "E", "F">>>>,
       <<"q", <<"A2", "B", "C", "I", "G2">>>>,
       <<"r", <<"G1", "E">>>>,
       <<"s", <<"G2", "M", "D2">>>>,
       <<"t", <<"E", "F", "G1", "D1">>>>,
       <<"u", <<"E", "D1", "D2", "C">>>>,
       <<"v", <<"E", "K">>>>,
       <<"w", <<"E", "K", "M", "C">>>>,
       <<"x", <<"H", "J", "K", "M">>>>,
       <<"y", <<"H", "J", "L", "D1">>>>,
       <<"z", <<"G1", "K", "D1">>>>
    >>

\* @bits keeping only the last segment named instead of or-ing them
font_bits_last(names) ==
    IF names = <<>> THEN SegmentBits_new
    ELSE bitor_segment(SegmentBits_new, names[Len(names)])

\* segmented_font!(@bits ...): SegmentBits::new() for 0, else
\* SegmentBits::new() | Segment::n1 | Segment::n2 | ...
RECURSIVE font_bits(_)
font_bits(names) ==
    IF names = <<>> THEN SegmentBits_new
    ELSE bitor_segment(font_bits(SubSeq(names, 1, Len(names) - 1)),
                       names[Len(names)])

\* [...].into_iter().collect::<HashMap<_, _>>() over entries lo..hi, each
\* ($char, segmented_font!(@bits ...)): the entries are inserted in order, so a
\* later entry of a key replaces an earlier one (the left operand of @@ wins).
RECURSIVE collect(_, _, _)
collect(entries, lo, hi) ==
    IF lo > hi THEN << >>
    ELSE IF lo = hi THEN entries[lo][1] :> font_bits(entries[lo][2])
    ELSE LET mid == (lo + hi) \div 2
         IN  collect(entries, mid + 1, hi) @@ collect(entries, lo, mid)

\* SegmentedFont::new
SegmentedFont_new(characters) == [characters |-> characters]

\* static DEFAULT
DEFAULT == SegmentedFont_new(collect(DEFAULT_TABLE, 1, Len(DEFAULT_TABLE)))

\* get that answers a missing character with the glyph of '?'
get_fallback(font, ch) ==
    IF ch \in DOMAIN font.characters
    THEN Some(font.characters[ch])
    ELSE Some(font.characters["?"])

\* SegmentedFont::get
get(font, ch) ==
    IF ch \in DOMAIN font.characters
    THEN Some(font.characters[ch])
    ELSE None

\* Option::cloned().unwrap_or_default() as the view uses it
unwrap_or_default(opt) == IF opt.some THEN opt.val ELSE SegmentBits_default

(***************************************************************************)
(* mod path (segments/digit.rs): the function-table geometry generator     *)
(***************************************************************************)

\* iced Size::new
Size_new(w, h) == [width |-> w, height |-> h]

\* canvas::path::Builder commands
move_to(p) == [op |-> "move_to", p |-> p]

line_to(p) == [op |-> "line_to", p |-> p]

close == [op |-> "close"]

\* const fn point(vec: Vec2) -> Point
point(vec) == [x |-> vec.x, y |-> vec.y]

\* path Options built without the thickness field, which stays at the 12.0
\* of Options::default()
path_Options_default_thickness(size, gap, thickness) ==
    [size |-> size, gap |-> gap, thickness |-> 120,
     pos_transform |-> IDENT, transform |-> IDENT]

\* path::Options { ..Default::default() } as draw_segments builds it: the
\* size, gap and thickness of the digit, identity pos_transform and transform.
path_Options(size, gap, thickness) ==
    [size |-> size, gap |-> gap, thickness |-> thickness,
     pos_transform |-> IDENT, transform |-> IDENT]

\* Options::transform: self.transform = transform * self.transform
Options_transform(o, m) == [o EXCEPT !.transform = mul_mat2(m, o.transform)]

\* const SHORT_SIDE: f32 = 0.08 and LONG_SIDE: f32 = 0.15, in hundredths
SHORT_SIDE == 8

LONG_SIDE == 15

segment_a1(o) ==
    LET gap == F32(o.gap)
        thick == F32(o.thickness)
        topleft == VScale(Vec2new(F32(o.size.width), F32(o.size.height)), Lit(-50))
        hgap == NMul(gap, Lit(50))
        dgap == NMul(NMul(gap, FRAC_1_SQRT_2), Lit(50))
        dgap_inner == NMul(NMul(gap, SQRT_2), Lit(50))
        hthick == NMul(thick, Lit(50))
        pt == o.pos_transform
        tr == o.transform
    IN  << move_to(point(mul_vec2(tr,
               VAdd(mul_vec2(pt, VAdd(topleft, Vec2new(hthick, hthick))),
                    Vec2new(dgap, NNeg(dgap)))))),
           line_to(point(mul_vec2(mul_mat2(tr, pt),
               VAdd(topleft, Vec2new(thick, Lit(0)))))),
           line_to(point(mul_vec2(tr,
               VAdd(mul_vec2(pt, Vec2new(Lit(0), topleft.y)),
                    Vec2new(NNeg(hgap), Lit(0)))))),
           line_to(point(mul_vec2(tr,
               VAdd(mul_vec2(pt, Vec2new(Lit(0), NAdd(topleft.y, thick))),
                    Vec2new(NNeg(hgap), Lit(0)))))),
           line_to(point(mul_vec2(tr,
               VAdd(mul_vec2(pt, VAdd(topleft, Vec2new(thick, thick))),
                    Vec2new(dgap_inner, Lit(0)))))),
           close >>

segment_f(o) ==
    LET gap == F32(o.gap)
        thick == F32(o.thickness)
        topleft == VScale(Vec2new(F32(o.size.width), F32(o.size.height)), Lit(-50))
        dgap == NMul(NMul(gap, FRAC_1_SQRT_2), Lit(50))
        dgap_inner == NMul(NMul(gap, SQRT_2), Lit(50))
        hthick == NMul(thick, Lit(50))
        pt == o.pos_transform
        tr == o.transform
    IN  << move_to(point(mul_vec2(tr,
               VAdd(mul_vec2(pt, VAdd(topleft, Vec2new(hthick, hthick))),
                    Vec2new(NNeg(dgap), dgap))))),
           line_to(point(mul_vec2(tr,
               VAdd(mul_vec2(pt, VAdd(topleft, Vec2new(thick, thick))),
                    Vec2new(Lit(0), dgap_inner))))),
           line_to(point(mul_vec2(tr,
               VAdd(mul_vec2(pt, Vec2new(NAdd(topleft.x, thick), NNeg(hthick))),
                    Vec2new(Lit(0), NNeg(dgap_inner)))))),
           line_to(point(mul_vec2(tr,
               VAdd(mul_vec2(pt, Vec2new(NAdd(topleft.x, hthick), Lit(0))),
                    Vec2new(NNeg(dgap), NNeg(dgap)))))),
           line_to(point(mul_vec2(tr,
               mul_vec2(pt, Vec2new(topleft.x, NNeg(hthick)))))),
           line_to(point(mul_vec2(mul_mat2(tr, pt),
               VAdd(topleft, Vec2new(Lit(0), thick))))),
           close >>

segment_g1(o) ==
    LET gap == F32(o.gap)
        thick == F32(o.thickness)
        left == NMul(F32(o.size.width), Lit(-50))
        hgap == NMul(gap, Lit(50))
        dgap_inner == NMul(NMul(gap, SQRT_2), Lit(50))
        hthick == NMul(thick, Lit(50))
        pt == o.pos_transform
        tr == o.transform
    IN  << move_to(point(mul_vec2(tr,
               VAdd(mul_vec2(pt, Vec2new(NAdd(left, hthick), Lit(0))),
                    Vec2new(dgap_inner, Lit(0)))))),
           line_to(point(mul_vec2(tr,
               VAdd(mul_vec2(pt, Vec2new(NAdd(left, thick), NNeg(hthick))),
                    Vec2new(dgap_inner, Lit(0)))))),
           line_to(point(mul_vec2(tr,
               VAdd(mul_vec2(pt, Vec2new(Lit(0), NNeg(hthick))),
                    Vec2new(NNeg(hgap), Lit(0)))))),
           line_to(point(mul_vec2(tr,
               VAdd(mul_vec2(pt, Vec2new(Lit(0), hthick)),
                    Vec2new(NNeg(hgap), Lit(0)))))),
           line_to(point(mul_vec2(tr,
               VAdd(mul_vec2(pt, Vec2new(NAdd(left, thick), hthick)),
                    Vec2new(dgap_inner, Lit(0)))))),
           close >>

segment_h(o) ==
    LET gap == F32(o.gap)
        thick == F32(o.thickness)
        width == F32(o.size.width)
        height == F32(o.size.height)
        topleft == VScale(Vec2new(width, height), Lit(-50))
        hthick == NMul(thick, Lit(50))
        short == NMul(width, Lit(SHORT_SIDE))
        long == NMul(height, Lit(LONG_SIDE))
        pt == o.pos_transform
        tr == o.transform
    IN  << move_to(point(mul_vec2(tr,
               VAdd(mul_vec2(pt, VAdd(topleft, Vec2new(thick, thick))),
                    Vec2new(gap, gap))))),
           line_to(point(mul_vec2(tr,
               VAdd(mul_vec2(pt, VAdd(topleft, Vec2new(NAdd(thick, short), thick))),
                    Vec2new(gap, gap))))),
           line_to(point(mul_vec2(tr,
               VAdd(mul_vec2(pt, Vec2new(NNeg(hthick), NAdd(NNeg(hthick), NNeg(long)))),
                    Vec2new(NNeg(gap), NNeg(gap)))))),
           line_to(point(mul_vec2(tr,
               VAdd(mul_vec2(pt, Vec2new(NNeg(hthick), NNeg(hthick))),
                    Vec2new(NNeg(gap), NNeg(gap)))))),
           line_to(point(mul_vec2(tr,
               VAdd(mul_vec2(pt, Vec2new(NAdd(NNeg(hthick), NNeg(short)), NNeg(hthick))),
                    Vec2new(NNeg(gap), NNeg(gap)))))),
           line_to(point(mul_vec2(tr,
               VAdd(mul_vec2(pt, VAdd(topleft, Vec2new(thick, NAdd(thick, long)))),
                    Vec2new(gap, gap))))),
           close >>

segment_i(o) ==
    LET gap == F32(o.gap)
        thick == F32(o.thickness)
        top == NMul(F32(o.size.height), Lit(-50))
        hthick == NMul(thick, Lit(50))
        pt == o.pos_transform
        tr == o.transform
    IN  << move_to(point(mul_vec2(tr,
               VAdd(mul_vec2(pt, Vec2new(NNeg(hthick), NAdd(top, thick))),
                    Vec2new(Lit(0), gap))))),
           line_to(point(mul_vec2(tr,
               VAdd(mul_vec2(pt, Vec2new(hthick, NAdd(top, thick))),
                    Vec2new(Lit(0), gap))))),
           line_to(point(mul_vec2(tr,
               VAdd(mul_vec2(pt, Vec2new(hthick, NNeg(hthick))),
                    Vec2new(Lit(0), NNeg(gap)))))),
           line_to(point(mul_vec2(tr,
               VAdd(mul_vec2(pt, Vec2new(NNeg(hthick), NNeg(hthick))),
                    Vec2new(Lit(0), NNeg(gap)))))),
           close >>

\* a segment_dot that draws a square of the thickness in the corner
segment_dot_square(o) ==
    LET thick == F32(o.thickness)
        corner == VScale(Vec2new(F32(o.size.width), F32(o.size.height)), Lit(50))
        at(dx, dy) == point(mul_vec2(o.transform, VAdd(corner, Vec2new(dx, dy))))
    IN  << move_to(at(Lit(0), Lit(0))), line_to(at(NNeg(thick), Lit(0))),
           line_to(at(NNeg(thick), NNeg(thick))), line_to(at(Lit(0), NNeg(thick))),
           close >>

\* segment_dot: a TODO, it adds nothing to the builder.
segment_dot(o) == << >>

\* (instructions.draw)(d, options): the draw function of an instruction,
\* named by the function it points to.
call_draw(draw, o) ==
    CASE draw = "segment_a1" -> segment_a1(o)
      [] draw = "segment_f" -> segment_f(o)
      [] draw = "segment_g1" -> segment_g1(o)
      [] draw = "segment_h" -> segment_h(o)
      [] draw = "segment_i" -> segment_i(o)
      [] draw = "segment_dot" -> segment_dot(o)

SegmentInstruction(draw, transform) == [draw |-> draw, transform |-> transform]

\* the table with the transform of B mistaken for that of E
SEGMENT_INSTRUCTIONS_swapped ==
    << SegmentInstruction("segment_a1", IDENT),
       SegmentInstruction("segment_a1", MIRROR_X),
       SegmentInstruction("segment_f", MIRROR_Y),
       SegmentInstruction("segment_f", MIRROR_XY),
       SegmentInstruction("segment_a1", MIRROR_Y),
       SegmentInstruction("segment_a1", MIRROR_XY),
       SegmentInstruction("segment_f", MIRROR_Y),
       SegmentInstruction("segment_f", IDENT),
       SegmentInstruction("segment_g1", IDENT),
       SegmentInstruction("segment_g1", MIRROR_X),
       SegmentInstruction("segment_h", IDENT),
       SegmentInstruction("segment_i", IDENT),
       SegmentInstruction("segment_h", MIRROR_X),
       SegmentInstruction("segment_h", MIRROR_Y),
       SegmentInstruction("segment_i", MIRROR_Y),
       SegmentInstruction("segment_h", MIRROR_XY),
       SegmentInstruction("segment_dot", IDENT) >>

\* path::SEGMENT_INSTRUCTIONS: [SegmentInstruction; 17], index 0 first.
SEGMENT_INSTRUCTIONS ==
    << (*A1*) SegmentInstruction("segment_a1", IDENT),
       (*A2*) SegmentInstruction("segment_a1", MIRROR_X),
       (*B*)  SegmentInstruction("segment_f", MIRROR_X),
       (*C*)  SegmentInstruction("segment_f", MIRROR_XY),
       (*D1*) SegmentInstruction("segment_a1", MIRROR_Y),
       (*D2*) SegmentInstruction("segment_a1", MIRROR_XY),
       (*E*)  SegmentInstruction("segment_f", MIRROR_Y),
       (*F*)  SegmentInstruction("segment_f", IDENT),
       (*G1*) SegmentInstruction("segment_g1", IDENT),
       (*G2*) SegmentInstruction("segment_g1", MIRROR_X),
       (*H*)  SegmentInstruction("segment_h", IDENT),
       (*I*)  SegmentInstruction("segment_i", IDENT),
       (*J*)  SegmentInstruction("segment_h", MIRROR_X),
       (*K*)  SegmentInstruction("segment_h", MIRROR_Y),
       (*L*)  SegmentInstruction("segment_i", MIRROR_Y),
       (*M*)  SegmentInstruction("segment_h", MIRROR_XY),
       (*DP*) SegmentInstruction("segment_dot", IDENT) >>

(***************************************************************************)
(* segments/digit/geometry.rs: the point-table geometry generator          *)
(***************************************************************************)

\* SegmentPoint::new(pos).with_thickness_offset(t).with_gap_offset(g); the
\* offsets not given are Vec2::ZERO.
SegmentPoint(pos, thickness_offset, gap_offset) ==
    [pos |-> pos, thickness_offset |-> thickness_offset, gap_offset |-> gap_offset]

\* A Vec2 of two literals in hundredths
V(x, y) == Vec2new(Lit(x), Lit(y))

\* DGAP without the factor 0.5
DGAP_unhalved == FRAC_1_SQRT_2

DGAP == NMul(FRAC_1_SQRT_2, Lit(50))

DGAP_INNER == NMul(SQRT_2, Lit(50))

TOP_LEFT == V(-100, -100)

TOP == V(0, -100)

LEFT == V(-100, 0)

MID == V(0, 0)

A1 ==
    << SegmentPoint(TOP_LEFT, V(50, 50), Vec2new(DGAP, NNeg(DGAP))),
       SegmentPoint(TOP_LEFT, V(100, 0), V(0, 0)),
       SegmentPoint(TOP, V(0, 0), V(-50, 0)),
       SegmentPoint(TOP, V(0, 100), V(-50, 0)),
       SegmentPoint(TOP_LEFT, V(100, 100), Vec2new(DGAP_INNER, Lit(0))) >>

F ==
    << SegmentPoint(TOP_LEFT, V(50, 50), Vec2new(NNeg(DGAP), DGAP)),
       SegmentPoint(TOP_LEFT, V(100, 100), Vec2new(Lit(0), DGAP_INNER)),
       SegmentPoint(LEFT, V(100, -50), Vec2new(Lit(0), NNeg(DGAP_INNER))),
       SegmentPoint(LEFT, V(50, 0), V(-50, -50)),
       SegmentPoint(LEFT, V(0, -50), V(0, 0)),
       SegmentPoint(TOP_LEFT, V(0, 100), V(0, 0)) >>

G1 ==
    << SegmentPoint(LEFT, V(50, 0), Vec2new(DGAP_INNER, Lit(0))),
       SegmentPoint(LEFT, V(100, -50), Vec2new(DGAP_INNER, Lit(0))),
       SegmentPoint(MID, V(0, -50), V(-50, 0)),
       SegmentPoint(MID, V(0, 50), V(-50, 0)),
       SegmentPoint(LEFT, V(100, 50), Vec2new(DGAP_INNER, Lit(0))) >>

H ==
    << SegmentPoint(TOP_LEFT, V(100, 100), V(100, 100)),
       SegmentPoint(TOP_LEFT, V(150, 100), V(100, 100)),
       SegmentPoint(V(0, -50), V(-50, 0), V(-100, 0)),
       SegmentPoint(MID, V(-50, -50), V(-100, -100)),
       SegmentPoint(MID, V(-100, -50), V(-100, -100)),
       SegmentPoint(V(-100, -50), V(100, 0), V(100, 0)) >>

I ==
    << SegmentPoint(TOP, V(-50, 100), V(0, 100)),
       SegmentPoint(TOP, V(50, 100), V(0, 100)),
       SegmentPoint(MID, V(50, -50), V(0, -100)),
       SegmentPoint(MID, V(-50, -50), V(0, -100)) >>

\* DrawingOptions with the digit's size, gap and thickness and the default
\* (identity) pos_transform and transform
DrawingOptions(size, gap, thickness) ==
    [size |-> size, gap |-> gap, thickness |-> thickness,
     pos_transform |-> IDENT, transform |-> IDENT]

\* DrawingOptions::transform: transform = self.transform * mat
DrawingOptions_transform(o, mat) ==
    [o EXCEPT !.transform = mul_mat2(o.transform, mat)]

\* The position draw_path computes for one SegmentPoint
path_point(sp, o) ==
    LET pos_ref == VScale(Vec2new(F32(o.size.width), F32(o.size.height)), Lit(50))
    IN  point(mul_vec2(o.transform,
            VAdd(mul_vec2(o.pos_transform,
                     VAdd(VMul(pos_ref, sp.pos),
                          VScale(sp.thickness_offset, F32(o.thickness)))),
                 VScale(sp.gap_offset, F32(o.gap)))))

\* draw_path: nothing for no points, else move_to, line_to ..., close
draw_path(points, o) ==
    IF points = << >> THEN << >>
    ELSE [k \in 1..(Len(points) + 1) |->
            IF k = 1 THEN move_to(path_point(points[1], o))
            ELSE IF k <= Len(points) THEN line_to(path_point(points[k], o))
            ELSE close]

PointInstruction(points, transform) == [points |-> points, transform |-> transform]

\* geometry.rs SEGMENT_INSTRUCTIONS: [SegmentInstruction; 16], index 0 first
geometry_SEGMENT_INSTRUCTIONS ==
    << (*A1*) PointInstruction(A1, IDENT),
       (*A2*) PointInstruction(A1, MIRROR_X),
       (*B*)  PointInstruction(F, MIRROR_X),
       (*C*)  PointInstruction(F, MIRROR_XY),
       (*D1*) PointInstruction(A1, MIRROR_Y),
       (*D2*) PointInstruction(A1, MIRROR_XY),
       (*E*)  PointInstruction(F, MIRROR_Y),
       (*F*)  PointInstruction(F, IDENT),
       (*G1*) PointInstruction(G1, IDENT),
       (*G2*) PointInstruction(G1, MIRROR_X),
       (*H*)  PointInstruction(H, IDENT),
       (*I*)  PointInstruction(I, IDENT),
       (*J*)  PointInstruction(H, MIRROR_X),
       (*K*)  PointInstruction(H, MIRROR_Y),
       (*L*)  PointInstruction(I, MIRROR_Y),
       (*M*)  PointInstruction(H, MIRROR_XY) >>

(***************************************************************************)
(* DigitOptions, DigitDisplay and DigitProgram (segments/digit.rs)         *)
(***************************************************************************)

\* DigitOptions::new: size 40 x 80, thickness 5.7, gap 1.3, slant 0, solid red
DigitOptions_new ==
    [size |-> Size_new(400, 800), thickness |-> 57, gap |-> 13,
     slant |-> 0, fill |-> "red"]

\* iced canvas::Cache: empty, or filled with the geometry drawn for `bounds`.
Cache_default == [filled |-> FALSE]

\* Cache::clear
Cache_clear(c) == Cache_default

\* Cache::draw(renderer, bounds, draw_fn): the stored geometry when the cache
\* is filled for the same bounds, else what draw_fn draws, which is stored.
Cache_draw(c, bounds, drawn) ==
    IF c.filled /\ c.bounds = bounds
    THEN [geometry |-> c.geometry, cache |-> c]
    ELSE [geometry |-> drawn,
          cache |-> [filled |-> TRUE, bounds |-> bounds, geometry |-> drawn]]

\* SegmentsCache::default(): one empty Cache per instruction
SegmentsCache_default == [i \in 1..Len(SEGMENT_INSTRUCTIONS) |-> Cache_default]

\* clear_cache that stops one slot short
clear_cache_short(cache) ==
    [i \in DOMAIN cache |->
        IF i < Len(cache) THEN Cache_clear(cache[i]) ELSE cache[i]]

\* DigitDisplay::clear_cache
clear_cache(cache) == [i \in DOMAIN cache |-> Cache_clear(cache[i])]

\* The closure draw_segments hands to Cache::draw for one segment index
\* (0-based): translate to the centre, scale by 1, fill the segment's path.
draw_frame(segment, digit_options) ==
    LET size == digit_options.size
        options == path_Options(size, digit_options.gap, digit_options.thickness)
        instructions == SEGMENT_INSTRUCTIONS[segment + 1]
        path == call_draw(instructions.draw,
                          Options_transform(options, instructions.transform))
    IN  [size |-> size,
         translation |-> VScale(Vec2new(F32(size.width), F32(size.height)), Lit(50)),
         scale |-> Lit(100),
         fills |-> << [path |-> path, style |-> digit_options.fill,
                       rule |-> "NonZero"] >>]

\* draw_segments that draws the last segment (DP, which has no path) without
\* going through its cache
draw_segments_uncached_dp(digit) ==
    LET size == digit.options.size
        n == Len(SEGMENT_INSTRUCTIONS)
        one(i) == Cache_draw(digit.cache[i], size, draw_frame(i - 1, digit.options))
    IN  [geometries |-> [i \in 1..n |-> one(i).geometry],
         cache |-> [i \in 1..n |-> IF i < n THEN one(i).cache ELSE digit.cache[i]]]

\* DigitProgram::draw_segments: every one of the 17 caches is drawn.
draw_segments(digit) ==
    LET size == digit.options.size
        one(i) == Cache_draw(digit.cache[i], size, draw_frame(i - 1, digit.options))
    IN  [geometries |-> [i \in 1..Len(SEGMENT_INSTRUCTIONS) |-> one(i).geometry],
         cache |-> [i \in 1..Len(SEGMENT_INSTRUCTIONS) |-> one(i).cache]]

\* the membership test with the bit one position too high
is_shown_shifted(segments, segment) ==
    u32_and(segments, shl(2, as_u8(segment))) # 0

\* `self.segments & segment` in the loop of draw
is_shown(segments, segment) == bitand_segment(segments, segment)

\* The loop of draw over the first n geometries: try_from(index).unwrap(),
\* then push the geometry when the segment is lit.
RECURSIVE draw_loop(_, _, _)
draw_loop(geometries, segments, n) ==
    IF n = 0 THEN [panic |-> FALSE, shown |-> << >>]
    ELSE LET prev == draw_loop(geometries, segments, n - 1)
             segment == try_from(n - 1)
         IN  IF prev.panic THEN prev
             ELSE IF ~segment.ok THEN [panic |-> TRUE, shown |-> prev.shown]
             ELSE IF is_shown(segments, segment.val)
                  THEN [panic |-> FALSE, shown |-> Append(prev.shown, geometries[n])]
                  ELSE prev

\* the early return without the is_empty test
draw_skips_size_only(segments, digit, bounds_size) ==
    bounds_size # digit.options.size

\* the early return without the bounds test
draw_skips_empty_only(segments, digit, bounds_size) == is_empty(segments)

\* The early return of draw
draw_skips(segments, digit, bounds_size) ==
    is_empty(segments) \/ bounds_size # digit.options.size

\* draw that stores the k-th geometry it returns in slot k: the index of the
\* output taken for the index of the segment
draw_output_indexed(segments, digit, bounds_size) ==
    IF draw_skips(segments, digit, bounds_size)
    THEN [panic |-> FALSE, shown |-> << >>, cache |-> digit.cache]
    ELSE LET drawn == draw_segments(digit)
             res == draw_loop(drawn.geometries, segments, Len(drawn.geometries))
         IN  [panic |-> res.panic, shown |-> res.shown,
              cache |-> [i \in DOMAIN drawn.cache |->
                            IF i <= Len(res.shown)
                            THEN [drawn.cache[i] EXCEPT !.geometry = res.shown[i]]
                            ELSE drawn.cache[i]]]

\* impl Program for DigitProgram: draw. The result and the cache afterwards.
draw(segments, digit, bounds_size) ==
    IF draw_skips(segments, digit, bounds_size)
    THEN [panic |-> FALSE, shown |-> << >>, cache |-> digit.cache]
    ELSE LET drawn == draw_segments(digit)
             res == draw_loop(drawn.geometries, segments, Len(drawn.geometries))
         IN  [panic |-> res.panic, shown |-> res.shown, cache |-> drawn.cache]

(***************************************************************************)
(* Bounds of the model                                                     *)
(***************************************************************************)

\* Thickness and gap values besides the defaults: 0, 1.0, ..., MaxStep.0
MaxStep == 1

\* Sizes besides the default 40 x 80: 10k x 20k for k in 1..MaxSizeStep
MaxSizeStep == 1

\* From<u32> inputs with a bit above the 17 segments: bits 17..17+MaxHighBit
MaxHighBit == 0

\* How many further operators are applied to the result of one
MaxChain == 1

Thicknesses == {DigitOptions_new.thickness} \cup {10 * k : k \in 0..MaxStep}

Gaps == {DigitOptions_new.gap} \cup {10 * k : k \in 0..MaxStep}

Sizes ==
    {DigitOptions_new.size} \cup {Size_new(100 * k, 200 * k) : k \in 1..MaxSizeStep}

Fills == {"red", "green"}

DigitOptionsSet ==
    [size : Sizes, thickness : Thicknesses, gap : Gaps,
     slant : {DigitOptions_new.slant}, fill : Fills]

\* The closures handed to modify_options: the two of the application
\* (|o| o.thickness = v, |o| o.gap = v) and one that changes nothing.
Modifiers ==
    {[field |-> "thickness", value |-> v] : v \in Thicknesses}
    \cup {[field |-> "gap", value |-> v] : v \in Gaps}
    \cup {[field |-> "none", value |-> 0]}

\* Characters the view is given in Spec: mapped ones, and unmapped ones
\* ("[" and "_" are ASCII without an entry, the last is not ASCII).
UnmappedChars ==
    {"[", "_", "~", "\\", "]", "^", "{", "|", "}",
     "U+00E9", "U+00DF", "U+20AC", "U+00E4", "U+00F6", "U+00FC"}

ViewChars == {"A", "0", " ", "H", "i", ".", "[", "_", "U+00E9"}

AllChars == DOMAIN DEFAULT.characters \cup UnmappedChars

\* u32 values given to From<u32>
U32Inputs ==
    {1285, 131071} \cup {shl(1, 17 + k) + 5 * k : k \in 0..MaxHighBit}

\* Segments given as the right operand of Segment | Segment
BitSegments == {"A1", "G1", "DP"}

\* Masks handed to instantiate directly (besides those of the view)
RawMasks == {from_u32(v) : v \in {0, 131071, 65536, shl(1, 17), shl(1, 17) + 5}}

(***************************************************************************)
(* State                                                                   *)
(***************************************************************************)

VARIABLES
    options,    \* DigitDisplay.options
    cache,      \* DigitDisplay.cache: 17 slots, slot i + 1 for segment index i
    program,    \* the DigitProgram the canvas holds, if any
    ret,        \* what the last draw returned
    last,       \* the last call, its arguments and the slots filled before it
    regs,       \* three SegmentBits values
    out,        \* the last SegmentBits operator applied and its result
    app         \* CatoDisplayApp besides its digit_display, once it runs

vars == <<options, cache, program, ret, last, regs, out, app>>

NoProgram == [live |-> FALSE]

NoRet == [panic |-> FALSE, shown |-> << >>]

NoOut == [op |-> "none", chain |-> 0, val |-> SegmentBits_new]

digit == [options |-> options, cache |-> cache]

\* The slots of the cache that hold geometry
filled_slots == {i \in DOMAIN cache : cache[i].filled}

bitsIdle == regs = <<SegmentBits_new, SegmentBits_new, SegmentBits_new>> /\ out = NoOut

\* No application runs: the display or the SegmentBits values are used alone
NoApp == [live |-> FALSE]

appIdle == app = NoApp

(***************************************************************************)
(* DigitDisplay and DigitProgram operations                                *)
(***************************************************************************)

\* DigitDisplay::new(options)
DigitDisplay_new(o) ==
    /\ options = o
    /\ cache = SegmentsCache_default
    /\ program = NoProgram
    /\ ret = NoRet
    /\ last = [op |-> "new", filled |-> {}]

\* A modifier closure applied to the options
modifier_call(m, o) ==
    CASE m.field = "thickness" -> [o EXCEPT !.thickness = m.value]
      [] m.field = "gap" -> [o EXCEPT !.gap = m.value]
      [] m.field = "none" -> o

\* DigitDisplay::set_options: &mut self, so no DigitProgram borrows the digit.
set_options(o) ==
    /\ cache' = clear_cache(cache)
    /\ options' = o
    /\ program' = NoProgram
    /\ ret' = NoRet
    /\ last' = [op |-> "set_options", options |-> o, filled |-> filled_slots]
    /\ UNCHANGED <<regs, out, app>>

\* modify_options without the clear_cache call
modify_options_keeps_cache(m) ==
    /\ options' = modifier_call(m, options)
    /\ program' = NoProgram
    /\ ret' = NoRet
    /\ last' = [op |-> "modify_options", modifier |-> m, filled |-> filled_slots]
    /\ UNCHANGED <<cache, regs, out, app>>

\* DigitDisplay::modify_options
modify_options(m) ==
    /\ cache' = clear_cache(cache)
    /\ options' = modifier_call(m, options)
    /\ program' = NoProgram
    /\ ret' = NoRet
    /\ last' = [op |-> "modify_options", modifier |-> m, filled |-> filled_slots]
    /\ UNCHANGED <<regs, out, app>>

\* DigitDisplay::instantiate(segments): a canvas over DigitProgram { digit, segments }
instantiate(segments) ==
    /\ program' = [live |-> TRUE, segments |-> segments]
    /\ ret' = NoRet
    /\ last' = [op |-> "instantiate", segments |-> segments, filled |-> filled_slots]
    /\ UNCHANGED <<options, cache, regs, out, app>>

\* One cell of CatoDisplayApp::view:
\* digit_display.instantiate(font.get(&ch).cloned().unwrap_or_default())
view_cell(ch) ==
    /\ program' = [live |-> TRUE,
                   segments |-> unwrap_or_default(get(DEFAULT, ch))]
    /\ ret' = NoRet
    /\ last' = [op |-> "view", ch |-> ch, filled |-> filled_slots]
    /\ UNCHANGED <<options, cache, regs, out, app>>

\* The canvas calls DigitProgram::draw with its bounds.
Draw(bounds_size) ==
    /\ program.live
    /\ LET res == draw(program.segments, digit, bounds_size)
       IN  /\ cache' = res.cache
           /\ ret' = [panic |-> res.panic, shown |-> res.shown]
    /\ last' = [op |-> "draw", segments |-> program.segments,
                bounds |-> bounds_size, filled |-> filled_slots]
    /\ UNCHANGED <<options, program, regs, out, app>>

Init ==
    /\ \E o \in DigitOptionsSet : DigitDisplay_new(o)
    /\ bitsIdle
    /\ appIdle

Next ==
    \/ \E o \in DigitOptionsSet : set_options(o)
    \/ \E m \in Modifiers : modify_options(m)
    \/ \E s \in RawMasks : instantiate(s)
    \/ \E ch \in ViewChars : view_cell(ch)
    \/ \E b \in Sizes : Draw(b)

Spec == Init /\ [][Next]_vars

(***************************************************************************)
(* Properties of the cached renderer                                       *)
(***************************************************************************)

\* Bit i (0-based) of a mask, by arithmetic
LitBit(mask, i) == (mask \div shl(1, i)) % 2 = 1

\* The lit segment indices among 0..16, ascending
RECURSIVE LitIndices(_, _)
LitIndices(mask, n) ==
    IF n = 0 THEN << >>
    ELSE IF LitBit(mask, n - 1)
         THEN Append(LitIndices(mask, n - 1), n - 1)
         ELSE LitIndices(mask, n - 1)

\* What a renderer without a cache returns: the geometry of each lit segment
\* computed from the options given
Cacheless(mask, o) ==
    LET lit == LitIndices(mask, Len(SEGMENT_INSTRUCTIONS))
    IN  [k \in 1..Len(lit) |-> draw_frame(lit[k], o)]

\* The last call was a draw that did not return early
Rendered ==
    /\ last.op = "draw"
    /\ ~is_empty(last.segments)
    /\ last.bounds = options.size

\* C1: a render that does not short-circuit returns, for each lit segment, the
\* geometry a cache-less renderer computes from the options current at that
\* render, whether the slots were filled before the call or not.
C1_CacheTransparency ==
    Rendered => ret.shown = Cacheless(last.segments, options)

\* C1 witness: a render answered from fully populated slots, under a thickness
\* other than the default one.
C1_Witness ==
    /\ Rendered
    /\ last.filled = DOMAIN cache
    /\ Len(ret.shown) > 0
    /\ options.thickness # DigitOptions_new.thickness

\* C2: right after set_options or modify_options all 17 slots are empty, and a
\* populated slot always holds the geometry of the current options.
C2_ClearedBeforeChange ==
    /\ last.op \in {"set_options", "modify_options"} => filled_slots = {}
    /\ \A i \in filled_slots :
          /\ cache[i].bounds = options.size
          /\ cache[i].geometry = draw_frame(i - 1, options)

\* C2 witness: a modifier that changes nothing, called on a fully populated
\* cache, has left every slot empty.
C2_Witness ==
    /\ last.op = "modify_options"
    /\ last.modifier.field = "none"
    /\ last.filled = DOMAIN cache
    /\ Cardinality(DOMAIN cache) = 17
    /\ filled_slots = {}

\* C3: a render that does not short-circuit returns exactly the geometries of
\* the lit segments, in ascending segment order: one per set bit among bits
\* 0..16 (6 for 'H', 3 for 'i').
C3_OnePerLitSegment ==
    Rendered =>
        LET lit == LitIndices(last.segments, 17)
        IN  /\ ~ret.panic
            /\ Len(ret.shown) = Len(lit)
            /\ \A k \in 1..Len(lit) : ret.shown[k] = cache[lit[k] + 1].geometry
            /\ last.segments = get(DEFAULT, "H").val => Len(ret.shown) = 6
            /\ last.segments = get(DEFAULT, "i").val => Len(ret.shown) = 3

\* C3 witness: the cell of 'H' rendered, with its six geometries.
C3_Witness ==
    /\ Rendered
    /\ last.segments = get(DEFAULT, "H").val
    /\ Len(ret.shown) = 6

\* C4: a draw with the empty mask returns nothing and leaves every slot as it
\* was, whatever the options and the bounds.
C4_EmptyMaskFrame ==
    [][(last'.op = "draw" /\ is_empty(program.segments))
         => (ret'.shown = << >> /\ ~ret'.panic /\ cache' = cache)]_vars

\* C4 witness: the empty mask drawn at the configured size, on an empty cache
\* that stayed empty.
C4_Witness ==
    /\ last.op = "draw"
    /\ is_empty(last.segments)
    /\ last.bounds = options.size
    /\ last.filled = {}
    /\ filled_slots = {}

\* C5: a draw whose bounds differ from options.size returns nothing for every
\* mask, does not fail, and leaves the slots and the options unchanged.
C5_SizeMismatchFrame ==
    [][(last'.op = "draw" /\ last'.bounds # options.size)
         => (ret'.shown = << >> /\ ~ret'.panic
             /\ cache' = cache /\ options' = options)]_vars

\* C5 witness: a non-empty mask drawn at other bounds on an empty cache.
C5_Witness ==
    /\ last.op = "draw"
    /\ ~is_empty(last.segments)
    /\ last.bounds # options.size
    /\ last.filled = {}
    /\ filled_slots = {}
    /\ ret.shown = << >>

(***************************************************************************)
(* The font seen through the view: every character, default options        *)
(***************************************************************************)

\* CatoDisplayApp::new: DigitDisplay::new(DigitOptions { ..Default::default() })
InitFont ==
    /\ DigitDisplay_new(DigitOptions_new)
    /\ bitsIdle
    /\ appIdle

NextFont ==
    \/ \E ch \in AllChars : view_cell(ch)
    \/ \E b \in Sizes : Draw(b)

SpecFont == InitFont /\ [][NextFont]_vars

\* The characters of the literal table
TableChars == {DEFAULT_TABLE[k][1] : k \in 1..Len(DEFAULT_TABLE)}

\* The segment names of the table entry of a character
EntryNames(ch) ==
    LET k == CHOOSE k \in 1..Len(DEFAULT_TABLE) : DEFAULT_TABLE[k][1] = ch
    IN  {DEFAULT_TABLE[k][2][j] : j \in 1..Len(DEFAULT_TABLE[k][2])}

\* The mask with exactly the bits of a set of segments, by arithmetic
RECURSIVE SetMask(_, _)
SetMask(names, n) ==
    IF n = 0 THEN 0
    ELSE SetMask(names, n - 1)
         + (IF Segment[n] \in names THEN shl(1, n - 1) ELSE 0)

MaskOf(names) == SetMask(names, Len(Segment))

\* C6: for every character of the literal table, encode returns exactly the
\* union of the bits of the segments its entry names; 'A', '0' and ' ' yield
\* the masks the specification lists.
C6_EncodeTable ==
    (last.op = "view" /\ last.ch \in TableChars) =>
        /\ get(DEFAULT, last.ch) = Some(MaskOf(EntryNames(last.ch)))
        /\ program.segments = MaskOf(EntryNames(last.ch))
        /\ last.ch = "A" =>
              program.segments = MaskOf({"A1", "A2", "B", "C", "E", "F", "G1", "G2"})
        /\ last.ch = "0" =>
              program.segments =
                  MaskOf({"A1", "A2", "B", "C", "D1", "D2", "E", "F", "J", "K"})
        /\ last.ch = " " => program.segments = 0

\* C6 witness: the cell of '0' built by the view.
C6_Witness ==
    /\ last.op = "view"
    /\ last.ch = "0"
    /\ program.segments = MaskOf({"A1", "A2", "B", "C", "D1", "D2", "E", "F", "J", "K"})

\* C7: for a character without an entry, encode returns None (no glyph of
\* another character), and the view builds its cell with the empty mask.
C7_UnmappedIsBlank ==
    (last.op = "view" /\ last.ch \notin TableChars) =>
        /\ get(DEFAULT, last.ch) = None
        /\ program.live
        /\ program.segments = 0

\* C7 witness: the cell of '[' built by the view, blank.
C7_Witness ==
    /\ last.op = "view"
    /\ last.ch = "["
    /\ program.segments = 0

(***************************************************************************)
(* SegmentBits constructors and operators on three values                  *)
(***************************************************************************)

displayIdle == DigitDisplay_new(DigitOptions_new)

InitBits ==
    /\ displayIdle
    /\ bitsIdle
    /\ appIdle

\* regs[r] = SegmentBits::new()
reg_new(r) ==
    /\ regs' = [regs EXCEPT ![r] = SegmentBits_new]
    /\ out' = NoOut
    /\ UNCHANGED <<options, cache, program, ret, last, app>>

\* regs[r] = SegmentBits::default()
reg_default(r) ==
    /\ regs' = [regs EXCEPT ![r] = SegmentBits_default]
    /\ out' = NoOut
    /\ UNCHANGED <<options, cache, program, ret, last, app>>

\* regs[r] = SegmentBits::from(v)
reg_from_u32(r, v) ==
    /\ regs' = [regs EXCEPT ![r] = from_u32(v)]
    /\ out' = NoOut
    /\ UNCHANGED <<options, cache, program, ret, last, app>>

\* Segment | Segment
out_segment_bitor(s1, s2) ==
    /\ out' = [op |-> "segment_bitor", chain |-> 0, lhs |-> s1, rhs |-> s2,
               val |-> segment_bitor(s1, s2)]
    /\ UNCHANGED <<options, cache, program, ret, last, regs, app>>

\* SegmentBits | Segment
out_bitor_segment(r, s) ==
    /\ out' = [op |-> "bitor_segment", chain |-> 0, lhs |-> regs[r], rhs |-> s,
               val |-> bitor_segment(regs[r], s)]
    /\ UNCHANGED <<options, cache, program, ret, last, regs, app>>

\* SegmentBits | SegmentBits on two of the values (chain 0), or on the last
\* result and the third value
out_bitor(lhs, rhs, chain) ==
    /\ chain <= MaxChain
    /\ out' = [op |-> "bitor", chain |-> chain, lhs |-> lhs, rhs |-> rhs,
               val |-> bitor(lhs, rhs)]
    /\ UNCHANGED <<options, cache, program, ret, last, regs, app>>

\* SegmentBits & SegmentBits
out_bitand(lhs, rhs, chain) ==
    /\ chain <= MaxChain
    /\ out' = [op |-> "bitand", chain |-> chain, lhs |-> lhs, rhs |-> rhs,
               val |-> bitand(lhs, rhs)]
    /\ UNCHANGED <<options, cache, program, ret, last, regs, app>>

Regs == 1..3

NextBits ==
    \/ \E r \in Regs : reg_new(r)
    \/ \E r \in Regs : reg_default(r)
    \/ \E r \in Regs, v \in U32Inputs : reg_from_u32(r, v)
    \/ \E s1 \in Segments, s2 \in BitSegments : out_segment_bitor(s1, s2)
    \/ \E r \in Regs, s \in Segments : out_bitor_segment(r, s)
    \/ \E p \in Regs, q \in Regs : out_bitor(regs[p], regs[q], 0)
    \/ out_bitor(out.val, regs[3], out.chain + 1)
    \/ \E p \in Regs, q \in Regs : out_bitand(regs[p], regs[q], 0)
    \/ out_bitand(out.val, regs[3], out.chain + 1)

SpecBits == InitBits /\ [][NextBits]_vars

\* C8: union is commutative and associative with the empty mask as identity,
\* and membership distributes over it.
C8_UnionLaws ==
    LET a == regs[1]
        b == regs[2]
        c == regs[3]
    IN  /\ bitor(a, b) = bitor(b, a)
        /\ bitor(bitor(a, b), c) = bitor(a, bitor(b, c))
        /\ bitor(a, SegmentBits_new) = a
        /\ bitor(SegmentBits_new, a) = a
        /\ \A s \in Segments :
              bitand_segment(bitor(a, b), s)
                  = (bitand_segment(a, s) \/ bitand_segment(b, s))
        /\ out.op = "bitor" =>
              /\ out.val = bitor(out.rhs, out.lhs)
              /\ \A s \in Segments :
                    bitand_segment(out.val, s)
                        = (bitand_segment(out.lhs, s) \/ bitand_segment(out.rhs, s))

\* C8 witness: the union of two different non-empty masks that share a segment.
C8_Witness ==
    /\ out.op = "bitor"
    /\ out.lhs # out.rhs
    /\ \E s \in Segments : bitand_segment(out.lhs, s) /\ bitand_segment(out.rhs, s)
    /\ \E s \in Segments : bitand_segment(out.lhs, s) /\ ~bitand_segment(out.rhs, s)
    /\ regs[3] # 0

\* C9: every SegmentBits value produced by a constructor or an operator has
\* bits 17..31 equal to zero.
C9_HighBitsZero ==
    /\ \A r \in Regs : regs[r] < shl(1, 17)
    /\ out.val < shl(1, 17)

(***************************************************************************)
(* Symmetry of the segment table                                           *)
(***************************************************************************)

\* The points of a path, in order (its move_to and line_to commands)
PathPoints(path) ==
    LET cmds == SelectSeq(path, LAMBDA c : c.op # "close")
    IN  [k \in 1..Len(cmds) |-> cmds[k].p]

NegX(pts) == [k \in 1..Len(pts) |-> [x |-> NNeg(pts[k].x), y |-> pts[k].y]]

NegY(pts) == [k \in 1..Len(pts) |-> [x |-> pts[k].x, y |-> NNeg(pts[k].y)]]

NegXY(pts) == NegX(NegY(pts))

\* The points the cache holds for a segment
CachedPoints(name) == PathPoints(cache[as_u8(name) + 1].geometry.fills[1].path)

\* The points the point-table generator emits for a segment under the
\* current options
TablePoints(name) ==
    LET ins == geometry_SEGMENT_INSTRUCTIONS[as_u8(name) + 1]
        o == DrawingOptions(options.size, options.gap, options.thickness)
    IN  PathPoints(draw_path(ins.points, DrawingOptions_transform(o, ins.transform)))

Mirrors == {IDENT, MIRROR_X, MIRROR_Y, MIRROR_XY}

\* The pairings base -> derived of the table, for a way P of getting points
MirrorPairs(P(_)) ==
    /\ P("A2") = NegX(P("A1"))
    /\ P("D1") = NegY(P("A1"))
    /\ P("D2") = NegXY(P("A1"))
    /\ P("B") = NegX(P("F"))
    /\ P("E") = NegY(P("F"))
    /\ P("C") = NegXY(P("F"))
    /\ P("G2") = NegX(P("G1"))
    /\ P("J") = NegX(P("H"))
    /\ P("K") = NegY(P("H"))
    /\ P("M") = NegXY(P("H"))
    /\ P("L") = NegY(P("I"))

\* C10: under the same options each derived segment's points are its base
\* segment's points with x negated, y negated or both, as the table pairs
\* them, in the rendered geometry and in the point table; and every
\* instruction uses the identity or one of the three mirrors.
C10_MirrorSymmetry ==
    /\ Len(SEGMENT_INSTRUCTIONS) = 17
    /\ \A i \in DOMAIN SEGMENT_INSTRUCTIONS :
          SEGMENT_INSTRUCTIONS[i].transform \in Mirrors
    /\ \A i \in DOMAIN geometry_SEGMENT_INSTRUCTIONS :
          geometry_SEGMENT_INSTRUCTIONS[i].transform \in Mirrors
    /\ filled_slots = DOMAIN cache => MirrorPairs(CachedPoints)
    /\ MirrorPairs(TablePoints)

\* C10 witness: all slots rendered, and B's points differ from F's by the
\* mirror (they are not equal to them).
C10_Witness ==
    /\ filled_slots = DOMAIN cache
    /\ options.gap > 0
    /\ options.thickness > 0
    /\ CachedPoints("B") # CachedPoints("F")
    /\ CachedPoints("B") = NegX(CachedPoints("F"))
    /\ Len(CachedPoints("F")) = 6

(***************************************************************************)
(* What the generator emits                                                *)
(***************************************************************************)

\* The path the function table draws for a segment index under the current
\* options
GeneratedPath(index) == draw_frame(index, options).fills[1].path

\* C11: under every options value each of the segment indices 0..15 gets a
\* path of at least 4 points that starts with a move and ends with close;
\* index 16 (DP) gets no command at all, so the cell of '.' renders as one
\* geometry whose fill has an empty path.
C11_NonEmptyPaths ==
    /\ \A index \in 0..15 :
          LET path == GeneratedPath(index)
          IN  /\ Len(PathPoints(path)) >= 4
              /\ Len(path) = Len(PathPoints(path)) + 1
              /\ path[1].op = "move_to"
              /\ path[Len(path)].op = "close"
    /\ GeneratedPath(16) = << >>
    /\ (Rendered /\ last.segments = get(DEFAULT, ".").val) =>
          /\ Len(ret.shown) = 1
          /\ Len(ret.shown[1].fills) = 1
          /\ ret.shown[1].fills[1].path = << >>

\* C11 witness: the cell of '.' rendered on an empty cache, which now holds
\* 6 points for F and none for DP.
C11_Witness ==
    /\ Rendered
    /\ last.segments = get(DEFAULT, ".").val
    /\ last.filled = {}
    /\ Len(ret.shown) = 1
    /\ Len(CachedPoints("F")) = 6
    /\ Len(CachedPoints("DP")) = 0

\* The distinct points the function table draws for a segment under the
\* current options
GeneratedPointSet(name) ==
    LET pts == PathPoints(GeneratedPath(as_u8(name)))
    IN  {pts[k] : k \in 1..Len(pts)}

\* The segments drawn by segment_h: their outline has sides that are
\* fractions of the size (SHORT_SIDE, LONG_SIDE)
Diagonals == {"H", "J", "K", "M"}

\* The segments that draw something and are not diagonals
Bars == (Segments \ Diagonals) \ {"DP"}

ZeroGapZeroThickness == options.gap = 0 /\ options.thickness = 0

\* C12 as stated: with gap = 0 and thickness = 0 the points of every drawable
\* segment's geometry are all equal.
C12_SinglePoint ==
    ZeroGapZeroThickness =>
        \A name \in Segments \ {"DP"} :
            cache[as_u8(name) + 1].filled =>
                LET pts == CachedPoints(name)
                IN  \A j, k \in 1..Len(pts) : pts[j] = pts[k]

\* C12, amended: with gap = 0 and thickness = 0 (size positive) no segment
\* fails; each bar's points lie on one horizontal or one vertical line and
\* are two distinct points (its two ends), so a bar has no area but is not a
\* single point; each diagonal keeps six distinct points.
C12_ZeroAreaOutlines ==
    ZeroGapZeroThickness =>
        /\ \A name \in Bars :
              LET ps == GeneratedPointSet(name)
              IN  /\ Cardinality(ps) = 2
                  /\ \/ \A p, q \in ps : p.x = q.x
                     \/ \A p, q \in ps : p.y = q.y
        /\ \A name \in Diagonals : Cardinality(GeneratedPointSet(name)) = 6
        /\ ~ret.panic
        /\ \A i \in filled_slots :
              cache[i].geometry.fills[1].path = GeneratedPath(i - 1)

\* C12 witness: every segment rendered with gap = 0 and thickness = 0; A1
\* runs from the top left corner to the middle of the top edge.
C12_Witness ==
    /\ ZeroGapZeroThickness
    /\ Rendered
    /\ last.segments = from_u32(131071)
    /\ Len(ret.shown) = 17
    /\ LET pts == CachedPoints("A1")
       IN  {pts[k] : k \in 1..Len(pts)} =
             {point(Vec2new(NMul(F32(options.size.width), Lit(-50)),
                            NMul(F32(options.size.height), Lit(-50)))),
              point(Vec2new(Lit(0), NMul(F32(options.size.height), Lit(-50))))}

(***************************************************************************)
(* Segment ordinals and the single-bit OR                                  *)
(***************************************************************************)

\* Every value of a u8
U8 == 0..255

\* The ordinals of the segments are 0..16, one each
OrdinalsExact ==
    /\ Cardinality(Segments) = 17
    /\ {as_u8(s) : s \in Segments} = 0..16

\* try_from on every u8: the segment of that ordinal up to 16, Err above
TryFromTotal ==
    \A v \in U8 :
        IF v <= 16
        THEN try_from(v).ok /\ as_u8(try_from(v).val) = v
        ELSE ~try_from(v).ok

\* C13: the ordinals of the 17 segments are exactly 0..16; try_from(v) is
\* Ok with the segment of ordinal v for v in 0..16 and Err for 17..255;
\* mask | s has bit ordinal(s) set and every other bit as in mask; and the
\* unwrap in the loop of draw never fails.
C13_OrdinalsAndSingleBit ==
    /\ OrdinalsExact
    /\ TryFromTotal
    /\ program.live =>
          \A s \in Segments :
              bitor_segment(program.segments, s) =
                  IF LitBit(program.segments, as_u8(s))
                  THEN program.segments
                  ELSE program.segments + shl(1, as_u8(s))
    /\ last.op = "draw" => ~ret.panic

\* C13 witness: the loop of draw has unwrapped all 17 indices for a mask
\* with every segment lit, under the default thickness.
C13_Witness ==
    /\ Rendered
    /\ last.segments = from_u32(131071)
    /\ options.thickness = DigitOptions_new.thickness
    /\ ~ret.panic
    /\ Len(ret.shown) = 17

(***************************************************************************)
(* Which slots a render populates                                          *)
(***************************************************************************)

\* C14 as stated: after a draw, the slot of every segment that is not lit in
\* the mask is filled exactly if it was filled before the draw.
C14_OnlyLitSlotsTouched ==
    last.op = "draw" =>
        \A i \in 0..16 :
            ~LitBit(last.segments, i) =>
                ((i + 1 \in filled_slots) <=> (i + 1 \in last.filled))

\* C14, amended: a draw that does not return early leaves all 17 slots
\* populated with the geometry of the current options, those of unlit
\* segments included, and returns the geometries of the lit segments only; a
\* draw that returns early leaves every slot filled or empty as it was.
C14_RenderFillsEverySlot ==
    last.op = "draw" =>
        IF Rendered
        THEN /\ filled_slots = DOMAIN cache
             /\ Cardinality(filled_slots) = 17
             /\ \A i \in DOMAIN cache :
                   cache[i].geometry = draw_frame(i - 1, options)
             /\ LET lit == LitIndices(last.segments, 17)
                IN  /\ Len(ret.shown) = Len(lit)
                    /\ \A k \in 1..Len(lit) :
                          ret.shown[k] = cache[lit[k] + 1].geometry
        ELSE filled_slots = last.filled

\* C14 witness: the cell of 'i' (3 lit segments) rendered on an empty cache:
\* 3 geometries returned, 17 slots populated.
C14_Witness ==
    /\ Rendered
    /\ last.segments = get(DEFAULT, "i").val
    /\ last.filled = {}
    /\ Len(ret.shown) = 3
    /\ Cardinality(filled_slots) = 17

(***************************************************************************)
(* The point tables of geometry.rs against the functions of digit.rs      *)
(***************************************************************************)

\* The segments whose instruction draws A1, G1 or I in both tables
SameShapeSegments == {"A1", "A2", "D1", "D2", "G1", "G2", "I", "L"}

\* The segments whose instruction draws F in both tables
FSegments == {"B", "C", "E", "F"}

\* C15 as stated: both tables define the same indices, and for every index
\* both define the rendered points are the points of the point table.
C15_SameMath ==
    Rendered =>
        /\ DOMAIN geometry_SEGMENT_INSTRUCTIONS = DOMAIN SEGMENT_INSTRUCTIONS
        /\ \A i \in DOMAIN geometry_SEGMENT_INSTRUCTIONS
                    \cap DOMAIN SEGMENT_INSTRUCTIONS :
              CachedPoints(Segment[i]) = TablePoints(Segment[i])

\* C15, amended: the function table has 17 instructions (indices 0..16), the
\* point table 16 (0..15, none for DP). Under the same options the rendered
\* points are those of the point table for the segments drawn from A1, G1
\* and I; for those drawn from F they differ in the fourth point alone, and
\* only when gap is not 0; for those drawn from H (the diagonals) they always
\* differ.
C15_EncodingsAgreeInPart ==
    /\ DOMAIN SEGMENT_INSTRUCTIONS = 1..17
    /\ DOMAIN geometry_SEGMENT_INSTRUCTIONS = 1..16
    /\ filled_slots = DOMAIN cache =>
          /\ \A name \in SameShapeSegments : CachedPoints(name) = TablePoints(name)
          /\ \A name \in FSegments :
                LET f == CachedPoints(name)
                    t == TablePoints(name)
                IN  /\ Len(f) = 6 /\ Len(t) = 6
                    /\ \A k \in {1, 2, 3, 5, 6} : f[k] = t[k]
                    /\ (f[4] = t[4]) <=> (options.gap = 0)
          /\ \A name \in Diagonals :
                LET h == CachedPoints(name)
                    t == TablePoints(name)
                IN  Len(h) = Len(t) /\ h # t

\* C15 witness: all segments rendered with a gap; A1 as in the point table,
\* F and H not.
C15_Witness ==
    /\ Rendered
    /\ filled_slots = DOMAIN cache
    /\ options.gap > 0
    /\ CachedPoints("A1") = TablePoints("A1")
    /\ CachedPoints("F") # TablePoints("F")
    /\ CachedPoints("H") # TablePoints("H")

(***************************************************************************)
(* The shared cache does not depend on the masks rendered                  *)
(***************************************************************************)

\* The masks whose draws are compared: all lit, and two cells
ProgramMasks ==
    << from_u32(131071),
       unwrap_or_default(get(DEFAULT, "H")),
       unwrap_or_default(get(DEFAULT, "i")) >>

\* A slot populated under the current options: a content in which no mask
\* occurs
PopulatedSlot(i) ==
    [filled |-> TRUE, bounds |-> options.size,
     geometry |-> draw_frame(i - 1, options)]

\* What draws of the three masks at the configured size give from the
\* current state
DrawsOfMasks ==
    << draw(ProgramMasks[1], digit, options.size),
       draw(ProgramMasks[2], digit, options.size),
       draw(ProgramMasks[3], digit, options.size) >>

\* C16: a populated slot holds what the segment index and the current options
\* determine, whatever masks were rendered before; wherever a cell exists,
\* draws of different masks leave the same cache, so they agree on every slot
\* they populate; and each draw returns the geometry of its own lit
\* segments, as the draw of all segments returns it for them, whatever
\* populated the cache before.
C16_MaskIndependence ==
    /\ \A i \in filled_slots : cache[i] = PopulatedSlot(i)
    /\ program.live =>
          \A d \in {DrawsOfMasks} :
              /\ d[2].cache = d[1].cache
              /\ d[3].cache = d[1].cache
              /\ \A i \in filled_slots : d[1].cache[i] = cache[i]
              /\ Len(d[1].shown) = 17
              /\ \A n \in 1..3 :
                    LET lit == LitIndices(ProgramMasks[n], 17)
                    IN  /\ ~d[n].panic
                        /\ d[n].shown = [k \in 1..Len(lit) |-> d[1].shown[lit[k] + 1]]

\* C16 witness: the cell of 'H' drawn from a cache that an earlier cell had
\* fully populated, under a gap other than the default one.
C16_Witness ==
    /\ Rendered
    /\ last.segments = get(DEFAULT, "H").val
    /\ last.filled = DOMAIN cache
    /\ options.gap # DigitOptions_new.gap
    /\ Len(ret.shown) = 6

(***************************************************************************)
(* The application: LoadingStatus, the fonts and CatoDisplayApp            *)
(* (app.rs, fonts.rs)                                                      *)
(***************************************************************************)

\* fonts.rs FONTS: the names of the fonts loaded at startup
FONTS == <<"Nunito-Regular", "Nunito-Bold", "Nunito-Italic", "Nunito-BoldItalic">>

\* fonts.rs NUM_FONTS = FONTS.len()
NUM_FONTS == Len(FONTS)

\* fonts::load_fonts: a batch of one load command per font, each of which
\* answers with one FontLoaded message. The commands not yet answered, by
\* their index in FONTS.
load_fonts == 1..Len(FONTS)

\* LoadingStatus that starts at 1
with_total_from_one(total) == [current |-> 1, total |-> total]

\* LoadingStatus::with_total
with_total(total) == [current |-> 0, total |-> total]

\* LoadingStatus::done
done(loading) == loading.current = loading.total

\* LoadingStatus::increment: debug_assert!(!self.done()), then current += 1.
\* `failed` tells that the assertion did not hold when it was evaluated.
increment(loading) ==
    [failed |-> done(loading),
     loading |-> [loading EXCEPT !.current = @ + 1]]

\* How long the text of the editor may get
MaxText == 1

\* The characters typed into the editor
TextChars == {"H", "i"}

\* The text_editor actions given to update: an insertion, a deletion and a
\* cursor movement
TextActions ==
    {[kind |-> "Insert", ch |-> ch] : ch \in TextChars}
    \cup {[kind |-> "Backspace"], [kind |-> "Move"]}

\* The values the two sliders send (range 1.0 ..= 100.0), in tenths
SliderThicknesses == {10, DigitOptions_new.thickness}

SliderGaps == {10, DigitOptions_new.gap}

\* The results a font load answers with
LoadResults == {"Ok", "Err"}

\* The rows and columns of the display: take(4) lines of take(24) characters
DISPLAY_ROWS == 4

DISPLAY_COLS == 24

\* Content::perform on a text of one line, the cursor at its end
perform(text, action) ==
    CASE action.kind = "Insert" -> Append(text, action.ch)
      [] action.kind = "Backspace" ->
            IF text = << >> THEN text ELSE SubSeq(text, 1, Len(text) - 1)
      [] action.kind = "Move" -> text

\* The mask view gives the cell at (row, col): the character of the line
\* padded with ' ' through the font, or the default mask in the rows after
\* the last line of the text.
cell_mask(text, row, col) ==
    IF row = 0
    THEN LET ch == IF col < Len(text) THEN text[col + 1] ELSE " "
         IN  unwrap_or_default(get(DEFAULT, ch))
    ELSE SegmentBits_default

\* CatoDisplayApp::new with the command it returns
CatoDisplayApp_new ==
    /\ DigitDisplay_new(DigitOptions_new)
    /\ app = [live |-> TRUE,
              loading |-> with_total(NUM_FONTS),
              text |-> << >>,
              pending |-> load_fonts,
              stderr |-> 0,
              assert_failed |-> FALSE]

\* update(FontLoaded) that counts a font only when it loaded
update_FontLoaded_counts_ok_only(k, result) ==
    /\ app.live
    /\ k \in app.pending
    /\ LET inc == increment(app.loading)
       IN  app' = [app EXCEPT
                     !.loading = IF result = "Ok" THEN inc.loading ELSE @,
                     !.assert_failed = @ \/ (result = "Ok" /\ inc.failed),
                     !.stderr = IF result = "Err" THEN @ + 1 ELSE @,
                     !.pending = @ \ {k}]
    /\ program' = NoProgram
    /\ ret' = NoRet
    /\ last' = [op |-> "FontLoaded", name |-> FONTS[k], result |-> result,
                filled |-> filled_slots]
    /\ UNCHANGED <<options, cache, regs, out>>

\* update(Message::FontLoaded { name, result }): the answer of load command k
\* is delivered. An Err writes a line to stderr (counted in app.stderr); the
\* counter is incremented for either result.
update_FontLoaded(k, result) ==
    /\ app.live
    /\ k \in app.pending
    /\ LET inc == increment(app.loading)
       IN  app' = [app EXCEPT
                     !.loading = inc.loading,
                     !.assert_failed = @ \/ inc.failed,
                     !.stderr = IF result = "Err" THEN @ + 1 ELSE @,
                     !.pending = @ \ {k}]
    /\ program' = NoProgram
    /\ ret' = NoRet
    /\ last' = [op |-> "FontLoaded", name |-> FONTS[k], result |-> result,
                filled |-> filled_slots]
    /\ UNCHANGED <<options, cache, regs, out>>

\* update(Message::SetDigitThickness(v)):
\* digit_display.modify_options(|o| o.thickness = v)
update_SetDigitThickness(v) ==
    /\ app.live
    /\ cache' = clear_cache(cache)
    /\ options' = modifier_call([field |-> "thickness", value |-> v], options)
    /\ program' = NoProgram
    /\ ret' = NoRet
    /\ last' = [op |-> "SetDigitThickness", value |-> v, filled |-> filled_slots]
    /\ UNCHANGED <<regs, out, app>>

\* update(SetDigitGap) with the closure of SetDigitThickness
update_SetDigitGap_sets_thickness(v) ==
    /\ app.live
    /\ cache' = clear_cache(cache)
    /\ options' = modifier_call([field |-> "thickness", value |-> v], options)
    /\ program' = NoProgram
    /\ ret' = NoRet
    /\ last' = [op |-> "SetDigitGap", value |-> v, filled |-> filled_slots]
    /\ UNCHANGED <<regs, out, app>>

\* update(Message::SetDigitGap(v)): digit_display.modify_options(|o| o.gap = v)
update_SetDigitGap(v) ==
    /\ app.live
    /\ cache' = clear_cache(cache)
    /\ options' = modifier_call([field |-> "gap", value |-> v], options)
    /\ program' = NoProgram
    /\ ret' = NoRet
    /\ last' = [op |-> "SetDigitGap", value |-> v, filled |-> filled_slots]
    /\ UNCHANGED <<regs, out, app>>

\* update(Message::TextAreaAction(action)): text.perform(action)
update_TextAreaAction(action) ==
    /\ app.live
    /\ action.kind = "Insert" => Len(app.text) < MaxText
    /\ app' = [app EXCEPT !.text = perform(@, action)]
    /\ program' = NoProgram
    /\ ret' = NoRet
    /\ last' = [op |-> "TextAreaAction", action |-> action, filled |-> filled_slots]
    /\ UNCHANGED <<options, cache, regs, out>>

\* update(Message::Scrolled(_viewport)): nothing
update_Scrolled ==
    /\ app.live
    /\ program' = NoProgram
    /\ ret' = NoRet
    /\ last' = [op |-> "Scrolled", filled |-> filled_slots]
    /\ UNCHANGED <<options, cache, regs, out, app>>

\* CatoDisplayApp::view: the progress bar while loading is not done, else the
\* display, of which the canvas of the cell at (row, col) is followed.
app_view(row, col) ==
    /\ app.live
    /\ IF ~done(app.loading)
       THEN /\ program' = NoProgram
            /\ last' = [op |-> "app_view", screen |-> "progress_bar",
                        filled |-> filled_slots]
       ELSE /\ program' = [live |-> TRUE,
                           segments |-> cell_mask(app.text, row, col)]
            /\ last' = [op |-> "app_view", screen |-> "display",
                        row |-> row, col |-> col, filled |-> filled_slots]
    /\ ret' = NoRet
    /\ UNCHANGED <<options, cache, regs, out, app>>

InitApp ==
    /\ CatoDisplayApp_new
    /\ bitsIdle

\* The delivery of the answer of a font load command
FontDelivery ==
    \E k \in 1..NUM_FONTS : \E result \in LoadResults : update_FontLoaded(k, result)

\* The columns followed: those of the text and the first padded one
ViewCols == {c \in 0..MaxText : c < DISPLAY_COLS}

NextApp ==
    \/ \E k \in 1..NUM_FONTS : \E result \in LoadResults : update_FontLoaded(k, result)
    \/ \E v \in SliderThicknesses : update_SetDigitThickness(v)
    \/ \E v \in SliderGaps : update_SetDigitGap(v)
    \/ \E action \in TextActions : update_TextAreaAction(action)
    \/ update_Scrolled
    \/ \E row \in 0..(DISPLAY_ROWS - 1) : \E col \in ViewCols : app_view(row, col)
    \/ \E b \in Sizes : Draw(b)

\* The runtime runs every command of the startup batch to its message: the
\* delivery of a pending FontLoaded is weakly fair.
SpecApp == InitApp /\ [][NextApp]_vars /\ WF_vars(FontDelivery)

(***************************************************************************)
(* Properties of the application                                           *)
(***************************************************************************)

\* C17: SetDigitThickness(v) sets options.thickness to v and changes no other
\* field, SetDigitGap(v) does the same for options.gap, and each leaves every
\* slot empty; FontLoaded, TextAreaAction and Scrolled leave the options and
\* every slot as they were; the two slider messages, TextAreaAction and
\* Scrolled leave the loading counter as it was.
C17_UpdateFrames ==
    [][/\ last'.op = "SetDigitThickness" =>
            /\ options' = [options EXCEPT !.thickness = last'.value]
            /\ \A i \in DOMAIN cache' : ~cache'[i].filled
       /\ last'.op = "SetDigitGap" =>
            /\ options' = [options EXCEPT !.gap = last'.value]
            /\ \A i \in DOMAIN cache' : ~cache'[i].filled
       /\ last'.op \in {"FontLoaded", "TextAreaAction", "Scrolled"} =>
            /\ options' = options
            /\ cache' = cache
       /\ last'.op \in {"SetDigitThickness", "SetDigitGap",
                        "TextAreaAction", "Scrolled"} =>
            app'.loading = app.loading]_vars

\* C17 witness: SetDigitGap, received with all 17 slots populated, has left
\* them empty and a gap other than the default; the thickness is the default.
C17_Witness ==
    /\ last.op = "SetDigitGap"
    /\ last.filled = DOMAIN cache
    /\ filled_slots = {}
    /\ options.gap = last.value
    /\ options.gap # DigitOptions_new.gap
    /\ options.thickness = DigitOptions_new.thickness
    /\ done(app.loading)

\* C18: the counter stays within 0..total with total = NUM_FONTS = 4 and
\* counts the answered load commands; increment is never called when done()
\* holds; view gives the display exactly when current = total and the
\* progress bar otherwise, so a cell is only ever drawn when loading is done.
C18_LoadingBounds ==
    /\ app.loading.total = NUM_FONTS
    /\ NUM_FONTS = 4
    /\ app.loading.current \in 0..app.loading.total
    /\ app.loading.current = NUM_FONTS - Cardinality(app.pending)
    /\ ~app.assert_failed
    /\ last.op = "app_view" =>
          /\ last.screen = "display" <=> app.loading.current = app.loading.total
          /\ last.screen = "progress_bar" <=> app.loading.current # app.loading.total
    /\ program.live => app.loading.current = app.loading.total

\* C18 witness: the fourth FontLoaded has been counted and view gives the
\* display.
C18_Witness ==
    /\ last.op = "app_view"
    /\ last.screen = "display"
    /\ app.loading.current = 4
    /\ app.pending = {}
    /\ program.live

\* C19: with every FontLoaded delivered, loading.done() comes to hold and
\* then holds for ever, whatever else is received in between and whether
\* the loads succeeded.
C19_EventuallyDoneForever == <>[]done(app.loading)

\* C19 witness: loading is done although two loads failed, the last answer
\* among them, and a thickness message came in between.
C19_Witness ==
    /\ done(app.loading)
    /\ last.op = "FontLoaded"
    /\ last.result = "Err"
    /\ app.stderr = 2
    /\ options.thickness # DigitOptions_new.thickness

====
